---- MODULE Spec2Model ----
(***************************************************************************)
(* cargo-wipe: the directory locator (get_paths_to_delete), the measurer   *)
(* (dir_size) and the orchestration that reports and optionally deletes    *)
(* (wipe_folders / write_content / write_footer).                          *)
(*                                                                         *)
(* The file system is a finite tree: a function from paths (sequences of   *)
(* entry names below the scanned root, <<>> being the root itself) to      *)
(* entries.  The tree is built by environment steps before the program     *)
(* starts; the program then runs wipe_folders once over it.                *)
(*                                                                         *)
(* What the model takes from the platform:                                 *)
(*  - DirEntry::metadata does not follow symbolic links, so a link is an   *)
(*    entry that is not a directory, with a length of its own;             *)
(*  - the order in which ReadDir yields the entries is unspecified: every  *)
(*    walk picks one of the orders;                                        *)
(*  - read_dir may fail to open a directory, ReadDir may yield an Err item *)
(*    after any number of entries, metadata may fail for an entry;         *)
(*  - remove_dir_all may fail for any path; a failed call is taken to      *)
(*    leave the tree as it was;                                            *)
(*  - the writer (stdout) accepts every write;                             *)
(*  - no other process changes the tree while wipe_folders runs.           *)
(***************************************************************************)
EXTENDS Naturals, Sequences, FiniteSets, TLC

VARIABLES
    fs,               \* the directory tree: path -> entry
    params,           \* WipeParams: [wipe, folder_name]
    pc,               \* position of wipe_folders
    paths_to_delete,  \* PathsResult of get_paths_to_delete
    idx,              \* position of write_content's for loop in paths_to_delete
    dir_info,         \* io::Result<DirInfo> of the last dir_size call
    file_count,       \* write_content's running file total
    size,             \* write_content's running byte total
    total,            \* DirInfo returned by write_content
    stdout,           \* the lines written so far
    removed           \* the remove_dir_all calls made so far, in call order

vars == <<fs, params, pc, paths_to_delete, idx, dir_info, file_count, size,
          total, stdout, removed>>

----------------------------------------------------------------------------
(* Bounds of the model *)

\* most entries below the root
MaxNodes == 3
\* most entries whose access fails (unopenable directory, failing
\* enumeration, entry whose metadata cannot be read)
MaxFaults == 1

\* entry names; the first two are the names the two kinds look for, the third
\* is the marker file of the build-cache kind
Names == {"target", "node_modules", ".rustc_info.json"}
\* metadata lengths of non-directory entries
FileLens == {10, 20}

Kinds == {"Target", "NodeModules"}

Root == <<>>

----------------------------------------------------------------------------
(* The file system *)

\* an entry: what DirEntry::metadata() reports (type, len), and how access to
\* it fails:  mode "noopen"   - a directory that fs::read_dir cannot open
\*            mode "iterfail" - a directory whose ReadDir yields an Err item
\*            type "vanished" - an entry ReadDir lists, whose metadata() fails
DirEntry(mode) == [type |-> "dir", mode |-> mode, len |-> 0]
LeafEntry(type, len) == [type |-> type, mode |-> "ok", len |-> len]

IsDir(f, p) == p \in DOMAIN f /\ f[p].type = "dir"

Parent(p) == SubSeq(p, 1, Len(p) - 1)
BaseName(p) == p[Len(p)]

\* q lies strictly below p
IsUnder(q, p) == Len(q) > Len(p) /\ SubSeq(q, 1, Len(p)) = p

Faulty(f) == {p \in DOMAIN f : f[p].mode # "ok" \/ f[p].type = "vanished"}

\* the names directory d holds
Children(f, d) == {n \in Names : Append(d, n) \in DOMAIN f}

\* the names read_dir(d) lists, in the enumeration order ord
Listing(f, d, ord) == SelectSeq(ord, LAMBDA n : Append(d, n) \in DOMAIN f)

\* the enumeration orders a platform may produce: the permutations of Names
Orders == {o \in [1..Cardinality(Names) -> Names] :
              \A n \in Names : \E i \in DOMAIN o : o[i] = n}

\* fs::read_dir(d) as the stream of items its ReadDir yields: the names in
\* order ord; a directory whose enumeration fails yields an Err item ("")
\* after at most cut names
ReadDir(f, d, ord, cut) ==
    LET l == Listing(f, d, ord)
        k == IF cut < Len(l) THEN cut ELSE Len(l)
    IN  IF f[d].mode = "iterfail" THEN Append(SubSeq(l, 1, k), "") ELSE l

\* how many names a failing enumeration may yield before its Err item: up to
\* all the names a directory with a failing enumeration holds
FailPoints(f) ==
    {k \in 0..Cardinality(Names) :
        k = 0 \/ \E d \in DOMAIN f :
                    f[d].mode = "iterfail" /\ k <= Cardinality(Children(f, d))}

----------------------------------------------------------------------------
(* dir_helpers.rs *)

\* DirectoryEnum's Display: the directory name a kind looks for
DirName(kind) == IF kind = "Target" THEN "target" ELSE "node_modules"

MarkerFile == ".rustc_info.json"

\* Path::exists
Exists(f, p) == p \in DOMAIN f /\ f[p].type # "vanished"

\* file.path().display().to_string(); the names of the model are valid UTF-8,
\* for which the conversion keeps the path
PathString(p) == p

IsValidTarget(f, p, kind) ==
    IF kind = "Target" THEN Exists(f, Append(p, MarkerFile)) ELSE TRUE

DirInfo(d, n, s) == [ok |-> TRUE, dir_count |-> d, file_count |-> n, size |-> s]
\* an io::Result<DirInfo> that is Err
DirInfoErr == [ok |-> FALSE, dir_count |-> 0, file_count |-> 0, size |-> 0]

\* an element of the Vec of a PathsResult: Ok(path string) or Err(e), e being
\* the failure to open the directory at path
OkItem(p) == [ok |-> TRUE, path |-> PathString(p)]
ErrItem(p) == [ok |-> FALSE, path |-> p]

\* a PathsResult: Ok(items), or Err.  dropped is a history field: the
\* accumulated items that were discarded when the fold returned Err
PathsOk(items) == [ok |-> TRUE, items |-> items, dropped |-> <<>>]
PathsErr(acc) == [ok |-> FALSE, items |-> <<>>, dropped |-> acc]

\* LocOpenFailed propagating the error
LocOpenFailed_Abort(d) == PathsErr(<<>>)

\* get_paths_to_delete::walk on Err(e) from read_dir
LocOpenFailed(d) == PathsOk(<<ErrItem(d)>>)

\* file.file_name() == directory.to_string()
NameMatches(n, kind) == n = DirName(kind)

\* LocMatched without the validation
LocMatched_Unvalidated(f, p, kind, acc) == Append(acc, OkItem(p))

\* the accumulator after a directory entry whose name matches
LocMatched(f, p, kind, acc) ==
    IF IsValidTarget(f, p, kind) THEN Append(acc, OkItem(p)) ELSE acc

\* Descends with the recursion outside the name test
Descends_Always(n, kind) == TRUE

\* whether the walk recurses into a directory entry named n: the else branch
\* of the name test
Descends(n, kind) == ~NameMatches(n, kind)

\* the fold's result once a nested walk returned sub: `?` on it, then append
LocAppended(acc, sub) ==
    IF sub.ok THEN PathsOk(acc \o sub.items) ELSE PathsErr(acc \o sub.dropped)

\* LocIterFailed keeping what was collected
LocIterFailed_Keep(acc) == PathsOk(acc)

\* the fold's result when the stream yields an Err item: `file?`
LocIterFailed(acc) == PathsErr(acc)

RECURSIVE LocWalk(_, _, _, _, _)
RECURSIVE LocFold(_, _, _, _, _, _, _)

\* the try_fold of get_paths_to_delete::walk over the rest of the stream
LocFold(f, d, kind, ord, cut, stream, acc) ==
    IF stream = <<>> THEN PathsOk(acc)
    ELSE LET n == Head(stream)
             p == Append(d, n)
         IN  IF n = "" THEN LocIterFailed(acc)
             ELSE IF f[p].type = "dir"
             THEN LET acc1 == IF NameMatches(n, kind)
                              THEN LocMatched(f, p, kind, acc) ELSE acc
                      r == IF Descends(n, kind)
                           THEN LocAppended(acc1, LocWalk(f, p, kind, ord, cut))
                           ELSE PathsOk(acc1)
                  IN  IF r.ok
                      THEN LocFold(f, d, kind, ord, cut, Tail(stream), r.items)
                      ELSE r
             ELSE LocFold(f, d, kind, ord, cut, Tail(stream), acc)

\* get_paths_to_delete::walk
LocWalk(f, d, kind, ord, cut) ==
    IF f[d].mode = "noopen" THEN LocOpenFailed(d)
    ELSE LocFold(f, d, kind, ord, cut, ReadDir(f, d, ord, cut), <<>>)

GetPathsToDelete(f, path, kind, ord, cut) == LocWalk(f, path, kind, ord, cut)

\* SizeOpenFailed propagating the error
SizeOpenFailed_Abort == DirInfoErr

\* dir_size::walk on Err(_) from read_dir
SizeOpenFailed == DirInfo(0, 0, 0)

\* what a non-directory entry whose metadata is Ok(data) contributes
SizeOfFile(data) == DirInfo(1, 1, data.len)

\* SizeAdded counting the entry instead of the files it contributes
SizeAdded_CountsEntries(acc, s) ==
    DirInfo(acc.dir_count + 1, acc.file_count + 1, acc.size + s.size)

\* the accumulator after an entry that contributes s
SizeAdded(acc, s) ==
    DirInfo(acc.dir_count + 1, acc.file_count + s.file_count, acc.size + s.size)

RECURSIVE SizeWalk(_, _, _, _)
RECURSIVE SizeFold(_, _, _, _, _, _)

\* the try_fold of dir_size::walk over the rest of the stream
SizeFold(f, d, ord, cut, stream, acc) ==
    IF stream = <<>> THEN acc
    ELSE LET n == Head(stream)
             p == Append(d, n)
         IN  IF n = "" THEN DirInfoErr
             ELSE LET s == IF f[p].type = "dir" THEN SizeWalk(f, p, ord, cut)
                           ELSE IF f[p].type = "vanished" THEN DirInfo(0, 0, 0)
                           ELSE SizeOfFile(f[p])
                  IN  IF s.ok
                      THEN SizeFold(f, d, ord, cut, Tail(stream), SizeAdded(acc, s))
                      ELSE DirInfoErr

\* dir_size::walk
SizeWalk(f, d, ord, cut) ==
    IF d \notin DOMAIN f \/ f[d].mode = "noopen" THEN SizeOpenFailed
    ELSE SizeFold(f, d, ord, cut, ReadDir(f, d, ord, cut), DirInfo(0, 0, 0))

DirSize(f, path, ord, cut) == SizeWalk(f, path, ord, cut)

MiB == 1024 * 1024
\* DirInfo::size_formatted_mb, before the thousands separators
SizeMb(info) == info.size \div MiB

----------------------------------------------------------------------------
(* wipe.rs *)

\* the folder names the command line accepts
FolderNames == {"Node", "NodeModules", "Rust", "Target"}

\* get_params on Args [wipe, folder_name]
GetParams(args) ==
    [wipe |-> args.wipe,
     folder_name |-> IF args.folder_name \in {"Node", "NodeModules"}
                     THEN "NodeModules" ELSE "Target"]

\* a line of output
Line(tag, path, files, mb, note) ==
    [tag |-> tag, path |-> path, files |-> files, mb |-> mb, note |-> note]

HeaderLine(pm) ==
    Line("header", Root, 0, 0, IF pm.wipe THEN "[WIPING]" ELSE "[DRY RUN]")

\* the report line of a path: its numbers, or "?" (tag "unknown") when
\* dir_size returned Err
RowLine(path, info) ==
    IF info.ok THEN Line("row", path, info.file_count, SizeMb(info), "")
    ELSE Line("unknown", path, 0, 0, "")

\* the message write_footer ends with
FooterNote(pm, tot) ==
    IF tot.dir_count > 0
    THEN IF ~pm.wipe THEN "Run cargo wipe -w" ELSE "All clear!"
    ELSE "Nothing found!"

\* Wipes without the test of the mode
Wipes_Always(pm) == TRUE

\* whether write_content calls fs::remove_dir_all on a reported path
Wipes(pm) == pm.wipe

\* AfterRemove with `?` on the result of remove_dir_all
AfterRemove_Abort(done) == IF done THEN "loop" ELSE "failed"

\* where write_content goes on after remove_dir_all returned (done: it
\* returned Ok): in both cases to the end of the loop body
AfterRemove(done) == "loop"

\* the DirInfo write_content returns
ContentTotal(paths, files, bytes) == DirInfo(Len(paths), files, bytes)

\* the tree after fs::remove_dir_all(p) succeeded
RemoveTree(f, p) ==
    [q \in {q \in DOMAIN f : q # p /\ ~IsUnder(q, p)} |-> f[q]]

\* fs::remove_dir_all(p) can succeed: every directory it has to empty opens
\* and enumerates
CanRemove(f, p) ==
    /\ IsDir(f, p)
    /\ \A q \in DOMAIN f : (q = p \/ IsUnder(q, p)) => f[q].mode = "ok"

----------------------------------------------------------------------------
(* The environment builds the tree *)

TypeOK ==
    /\ pc \in {"setup", "loop", "measured", "done", "failed"}
    /\ params.wipe \in BOOLEAN /\ params.folder_name \in Kinds
    /\ Root \in DOMAIN fs /\ fs[Root].type = "dir"
    /\ \A p \in DOMAIN fs : p # Root => IsDir(fs, Parent(p))

Init ==
    /\ fs = (Root :> DirEntry("ok"))
    /\ params = [wipe |-> FALSE, folder_name |-> "Target"]
    /\ pc = "setup"
    /\ paths_to_delete = PathsOk(<<>>)
    /\ idx = 1
    /\ dir_info = DirInfo(0, 0, 0)
    /\ file_count = 0
    /\ size = 0
    /\ total = DirInfo(0, 0, 0)
    /\ stdout = <<>>
    /\ removed = <<>>

\* another process creates an entry
Create ==
    /\ pc = "setup"
    /\ Cardinality(DOMAIN fs) - 1 < MaxNodes
    /\ \E d \in DOMAIN fs, n \in Names :
         /\ IsDir(fs, d)
         /\ Append(d, n) \notin DOMAIN fs
         /\ \E e \in {DirEntry("ok")}
                     \cup {LeafEntry(t, l) : t \in {"file", "symlink"}, l \in FileLens}
                     \cup {LeafEntry("vanished", 0)} :
              /\ e.type = "vanished" => Cardinality(Faulty(fs)) < MaxFaults
              /\ fs' = (Append(d, n) :> e) @@ fs
    /\ UNCHANGED <<params, pc, paths_to_delete, idx, dir_info, file_count, size,
                   total, stdout, removed>>

\* a directory becomes unopenable, or its enumeration starts to fail
Break ==
    /\ pc = "setup"
    /\ Cardinality(Faulty(fs)) < MaxFaults
    /\ \E d \in DOMAIN fs, m \in {"noopen", "iterfail"} :
         /\ IsDir(fs, d)
         /\ fs[d].mode = "ok"
         /\ fs' = [fs EXCEPT ![d].mode = m]
    /\ UNCHANGED <<params, pc, paths_to_delete, idx, dir_info, file_count, size,
                   total, stdout, removed>>

----------------------------------------------------------------------------
(* wipe_folders *)

\* get_params, write_header, and write_content up to its for loop:
\* get_paths_to_delete(..)?, on whose Err wipe_folders returns Err
Locate ==
    /\ pc = "setup"
    /\ params' \in {GetParams(args) : args \in [wipe : BOOLEAN, folder_name : FolderNames]}
    /\ stdout' = <<HeaderLine(params')>>
    /\ \E ord \in Orders, cut \in FailPoints(fs) :
         paths_to_delete' = GetPathsToDelete(fs, Root, params'.folder_name, ord, cut)
    /\ pc' = IF paths_to_delete'.ok THEN "loop" ELSE "failed"
    /\ idx' = 1
    /\ file_count' = 0
    /\ size' = 0
    /\ UNCHANGED <<fs, dir_info, total, removed>>

\* the element the for loop is at
Current == paths_to_delete.items[idx]

\* the loop passes over an Err element
SkipErr ==
    /\ pc = "loop"
    /\ idx <= Len(paths_to_delete.items)
    /\ ~Current.ok
    /\ idx' = idx + 1
    /\ UNCHANGED <<fs, params, pc, paths_to_delete, dir_info, file_count, size,
                   total, stdout, removed>>

\* the loop body for an Ok element, up to the report of its numbers
Measure ==
    /\ pc = "loop"
    /\ idx <= Len(paths_to_delete.items)
    /\ Current.ok
    /\ \E ord \in Orders, cut \in FailPoints(fs) :
         dir_info' = DirSize(fs, Current.path, ord, cut)
    /\ stdout' = Append(stdout, RowLine(Current.path, dir_info'))
    /\ file_count' = IF dir_info'.ok THEN file_count + dir_info'.file_count
                     ELSE file_count
    /\ size' = IF dir_info'.ok THEN size + dir_info'.size ELSE size
    /\ pc' = "measured"
    /\ UNCHANGED <<fs, params, paths_to_delete, idx, total, removed>>

\* the rest of the loop body in wipe mode: remove_dir_all, its error inline
Remove ==
    /\ pc = "measured"
    /\ Wipes(params)
    /\ \E done \in BOOLEAN :
         /\ done => CanRemove(fs, Current.path)
         /\ fs' = IF done THEN RemoveTree(fs, Current.path) ELSE fs
         /\ removed' = Append(removed, [path |-> Current.path, ok |-> done])
         /\ stdout' = IF done THEN stdout
                      ELSE [stdout EXCEPT ![Len(stdout)].note = "error"]
         /\ pc' = AfterRemove(done)
    /\ idx' = idx + 1
    /\ UNCHANGED <<params, paths_to_delete, dir_info, file_count, size, total>>

\* the rest of the loop body in dry-run mode
EndLine ==
    /\ pc = "measured"
    /\ ~Wipes(params)
    /\ idx' = idx + 1
    /\ pc' = "loop"
    /\ UNCHANGED <<fs, params, paths_to_delete, dir_info, file_count, size,
                   total, stdout, removed>>

\* write_content returns its total, and write_footer
WriteFooter ==
    /\ pc = "loop"
    /\ idx > Len(paths_to_delete.items)
    /\ total' = ContentTotal(paths_to_delete.items, file_count, size)
    /\ stdout' = stdout \o <<Line("total", Root, total'.file_count, total'.size, ""),
                             Line("footer", Root, 0, 0, FooterNote(params, total'))>>
    /\ pc' = "done"
    /\ UNCHANGED <<fs, params, paths_to_delete, idx, dir_info, file_count, size,
                   removed>>

Next ==
    \/ Create
    \/ Break
    \/ Locate
    \/ SkipErr
    \/ Measure
    \/ Remove
    \/ EndLine
    \/ WriteFooter

Spec == Init /\ [][Next]_vars

----------------------------------------------------------------------------
(* Vocabulary of the properties *)

kind == params.folder_name
items == paths_to_delete.items

\* the scan has returned and nothing has been done to the tree since
Scanned == (pc = "loop" /\ idx = 1) \/ pc = "failed"

OkSeq(s) == SelectSeq(s, LAMBDA it : it.ok)
ErrSeq(s) == SelectSeq(s, LAMBDA it : ~it.ok)
PathsOf(s) == {s[i].path : i \in DOMAIN s}

\* the report lines of the listed directories
Rows(out) == SelectSeq(out, LAMBDA l : l.tag \in {"row", "unknown"})

\* q is p or lies below it
InTree(q, p) == q = p \/ IsUnder(q, p)

\* every directory of the tree opens and enumerates, every metadata reads
FullyReadable(f, p) == \A q \in DOMAIN f : InTree(q, p) => q \notin Faulty(f)

\* the directory holds the marker file
HasMarker(f, p) ==
    /\ Append(p, MarkerFile) \in DOMAIN f
    /\ f[Append(p, MarkerFile)].type # "vanished"

\* the directories below the root that bear the kind's name and pass validation
Matching(f, k) ==
    {p \in DOMAIN f : /\ p # Root
                      /\ IsDir(f, p)
                      /\ BaseName(p) = DirName(k)
                      /\ k = "Target" => HasMarker(f, p)}

\* some directory strictly between the root and p bears the kind's name
InsideNamed(p, k) == \E j \in 1..(Len(p) - 1) : p[j] = DirName(k)

\* the matching directories that lie in no directory bearing the kind's name
Outermost(f, k) == {p \in Matching(f, k) : ~InsideNamed(p, k)}

NotNested(S) == \A p \in S, q \in S : ~IsUnder(q, p)

\* the directories the scan for kind k opens: not unopenable, reached through
\* openable directories, none of them (the root aside) bearing the kind's name
Opened(f, k) ==
    {d \in DOMAIN f : /\ IsDir(f, d)
                      /\ \A j \in 1..Len(d) : d[j] # DirName(k)
                      /\ \A j \in 0..Len(d) : f[SubSeq(d, 1, j)].mode # "noopen"}

\* the directories the scan fails to open
Unopenable(f, k) ==
    {d \in DOMAIN f : /\ IsDir(f, d)
                      /\ f[d].mode = "noopen"
                      /\ \A j \in 1..Len(d) : d[j] # DirName(k)
                      /\ \A j \in 0..(Len(d) - 1) : f[SubSeq(d, 1, j)].mode # "noopen"}

\* the directories bearing the kind's name that the scan comes across
Candidates(f, k) ==
    {p \in DOMAIN f : /\ p # Root
                      /\ IsDir(f, p)
                      /\ BaseName(p) = DirName(k)
                      /\ Parent(p) \in Opened(f, k)}

\* the scan opens a directory whose enumeration fails
IterFailHit(f, k) == \E d \in Opened(f, k) : f[d].mode = "iterfail"

\* the directories the measurement of p opens
SizeOpened(f, p) ==
    {d \in DOMAIN f : /\ IsDir(f, d)
                      /\ InTree(d, p)
                      /\ \A j \in Len(p)..Len(d) : f[SubSeq(d, 1, j)].mode # "noopen"}

\* the entries that are not directories, in the directories the measurement
\* of p opens
FilesSeen(f, p) ==
    {q \in DOMAIN f : /\ q # Root
                      /\ f[q].type \in {"file", "symlink"}
                      /\ Parent(q) \in SizeOpened(f, p)}

RECURSIVE SumLen(_, _)
SumLen(f, S) ==
    IF S = {} THEN 0
    ELSE LET q == CHOOSE q \in S : TRUE IN f[q].len + SumLen(f, S \ {q})

RECURSIVE SumFiles(_)
SumFiles(rows) ==
    IF rows = <<>> THEN 0 ELSE Head(rows).files + SumFiles(Tail(rows))

----------------------------------------------------------------------------
(* The locator *)

C2_MarkerRequiredForTargetOnly ==
    (Scanned /\ paths_to_delete.ok) =>
        /\ kind = "Target" =>
              \A p \in PathsOf(OkSeq(items)) : HasMarker(fs, p)
        /\ kind = "NodeModules" =>
              \A p \in Candidates(fs, kind) : p \in PathsOf(OkSeq(items))

\* a scan for Target that came across a target directory without the marker
\* file and did not return it
C2_Witness ==
    /\ Scanned /\ paths_to_delete.ok /\ kind = "Target"
    /\ \E p \in Candidates(fs, kind) :
          ~HasMarker(fs, p) /\ p \notin PathsOf(OkSeq(items))

\* C7: provided no enumeration fails, the scan returns Ok; its result holds
\* one Err entry for each directory it could not open, the root included, and
\* one Ok entry for each valid directory of the kind's name it came across
\* in the directories it could open
C7_OpenFailureIsOneEntry ==
    (Scanned /\ ~IterFailHit(fs, kind)) =>
        /\ paths_to_delete.ok
        /\ PathsOf(ErrSeq(items)) = Unopenable(fs, kind)
        /\ Len(ErrSeq(items)) = Cardinality(Unopenable(fs, kind))
        /\ PathsOf(OkSeq(items)) =
              {p \in Candidates(fs, kind) : IsValidTarget(fs, p, kind)}
        /\ Len(OkSeq(items)) = Cardinality(PathsOf(OkSeq(items)))

\* a scan whose result holds the Err entry of an unopenable directory and,
\* after it, the Ok entry of a directory found in another branch
C7_Witness ==
    /\ Scanned /\ paths_to_delete.ok
    /\ \E i \in DOMAIN items, j \in DOMAIN items :
          i < j /\ ~items[i].ok /\ items[j].ok /\ items[i].path # Root

----------------------------------------------------------------------------
(* The measurer *)

\* the directory dir_size was last called on
measured == Current.path

\* the entries below p of the given types
EntriesUnder(f, p, types) == {q \in DOMAIN f : IsUnder(q, p) /\ f[q].type \in types}

\* C4, as stated: on a fully readable tree dir_size returns the number of
\* regular files below the path and the sum of their lengths
C4_CountsRegularFiles ==
    (pc = "measured" /\ FullyReadable(fs, measured)) =>
        /\ dir_info.ok
        /\ dir_info.file_count = Cardinality(EntriesUnder(fs, measured, {"file"}))
        /\ dir_info.size = SumLen(fs, EntriesUnder(fs, measured, {"file"}))

\* C4, amended: on a fully readable tree dir_size returns the number of
\* entries below the path that are not directories (regular files and
\* symbolic links alike, at any depth) and the sum of their metadata lengths
C4_CountsNonDirectories ==
    (pc = "measured" /\ FullyReadable(fs, measured)) =>
        /\ dir_info.ok
        /\ dir_info.file_count =
              Cardinality(EntriesUnder(fs, measured, {"file", "symlink"}))
        /\ dir_info.size =
              SumLen(fs, EntriesUnder(fs, measured, {"file", "symlink"}))

\* a measurement of a fully readable tree that counted an entry of a nested
\* subdirectory
C4_Witness ==
    /\ pc = "measured" /\ FullyReadable(fs, measured)
    /\ dir_info.file_count > 0
    /\ \E q \in EntriesUnder(fs, measured, {"file", "symlink"}) :
          Len(q) > Len(measured) + 1

\* C5, as stated: dir_size of a directory it opened returns a dir_count of
\* at least one more than the subdirectories it visited, and of exactly 1
\* when the directory holds regular files only
C5_DirCountCountsItself ==
    (pc = "measured" /\ dir_info.ok /\ fs[measured].mode # "noopen") =>
        /\ dir_info.dir_count >= 1 + Cardinality(SizeOpened(fs, measured) \ {measured})
        /\ (\A q \in DOMAIN fs : IsUnder(q, measured) => fs[q].type = "file")
              => dir_info.dir_count = 1

\* C9: dir_size of a path it cannot open returns Ok with zeroed numbers;
\* provided no enumeration fails, it returns Ok, and the numbers are those of
\* the entries in the directories it could open, an unopenable subdirectory
\* adding nothing
C9_OpenFailureCountsZero ==
    pc = "measured" =>
        /\ fs[measured].mode = "noopen" => dir_info = DirInfo(0, 0, 0)
        /\ (\A d \in SizeOpened(fs, measured) : fs[d].mode # "iterfail") =>
              /\ dir_info.ok
              /\ dir_info.file_count = Cardinality(FilesSeen(fs, measured))
              /\ dir_info.size = SumLen(fs, FilesSeen(fs, measured))

\* a measurement that met an unopenable subdirectory and counted a file
\* beside it
C9_Witness ==
    /\ pc = "measured"
    /\ dir_info.ok /\ dir_info.file_count > 0
    /\ \E d \in DOMAIN fs :
          /\ IsUnder(d, measured)
          /\ fs[d].mode = "noopen"
          /\ Parent(d) \in SizeOpened(fs, measured)

----------------------------------------------------------------------------
(* The orchestration *)

\* C3: a step of a dry run leaves the tree as it is and calls no
\* remove_dir_all
C3_DryRunTouchesNothing ==
    [][(pc' # "setup" /\ ~params'.wipe) => (fs' = fs /\ removed' = <<>>)]_vars

\* a finished dry run that listed a directory
C3_Witness ==
    /\ pc = "done" /\ ~params.wipe
    /\ Rows(stdout) # <<>>

\* C6: in wipe mode remove_dir_all has been called, in order, on every Ok
\* path the loop has passed, each with its report line, which shows the error
\* exactly when the call failed; the run never ends on a failed call, goes on
\* after it, and returns the total of the numbers reported
C6_WipeGoesOnAfterFailure ==
    params.wipe =>
        /\ pc \in {"loop", "done"} =>
              LET passed == OkSeq(SubSeq(items, 1, idx - 1))
                  rows == Rows(stdout)
              IN  /\ Len(removed) = Len(passed)
                  /\ Len(rows) = Len(passed)
                  /\ \A i \in DOMAIN passed :
                        /\ removed[i].path = passed[i].path
                        /\ rows[i].path = passed[i].path
                        /\ (rows[i].note = "error") <=> ~removed[i].ok
        /\ pc = "failed" => removed = <<>>
        /\ pc = "loop" => ENABLED (SkipErr \/ Measure \/ WriteFooter)
        /\ pc = "measured" => ENABLED Remove
        /\ pc = "done" =>
              /\ idx = Len(items) + 1
              /\ total.ok
              /\ total.file_count = SumFiles(Rows(stdout))

\* a finished wipe in which a call failed and the call for a later path
\* succeeded
C6_Witness ==
    /\ pc = "done" /\ params.wipe
    /\ \E i \in DOMAIN removed, j \in DOMAIN removed :
          i < j /\ ~removed[i].ok /\ removed[j].ok

\* C10, as stated: the total's dir_count is the number of directories
\* listed, and the footer says "Nothing found!" exactly when none was listed
C10_NothingFoundIffNoneListed ==
    pc = "done" =>
        /\ total.dir_count = Len(Rows(stdout))
        /\ (stdout[Len(stdout)].note = "Nothing found!") <=> (Rows(stdout) = <<>>)

====
